---- MODULE Spec2Model ----
(***************************************************************************)
(* fedcal: the interval-indexed appropriations-status engine.              *)
(*                                                                         *)
(* src/fedcal/_tree.py    CRTreeGrower, AppropriationsGapsTreeGrower, Tree *)
(* src/fedcal/fedstamp.py FedStamp status cache and status getters         *)
(*                                                                         *)
(* fedcal/constants.py and fedcal/_dept_status.py are not part of the      *)
(* sources at hand; the definitions that stand for them are written from   *)
(* the design document (sections 3, 4.5 and 6) and say so.                 *)
(*                                                                         *)
(* Python values are represented as follows.                               *)
(*   Optional x        <<>> is None, <<v>> is the value v                  *)
(*   IntervalTree      the set of its Interval records                     *)
(*   Interval          [begin, end, data], data = <<departments, status>>  *)
(*   dict (table)      the sequence of its items, in insertion order       *)
(*   pd.Timestamp      seconds since the epoch, at midnight                *)
(*   FedDepartment     [name, status]                                      *)
(***************************************************************************)
EXTENDS Integers, Sequences, FiniteSets, TLC

VARIABLES
    CR_DEPARTMENTS,       \* constants.CR_DEPARTMENTS, the CR source table
    APPROPRIATIONS_GAPS,  \* constants.APPROPRIATIONS_GAPS, the gap source table
    cr_instance,          \* Tree.cr_instance  : Optional CRTreeGrower
    gap_instance,         \* Tree.gap_instance : Optional AppropriationsGapsTreeGrower
    cr_tree,              \* Tree.cr_tree      : Optional IntervalTree
    gap_tree,             \* Tree.gap_tree     : Optional IntervalTree
    tree,                 \* Tree.tree         : Optional IntervalTree
    state_tree,           \* DepartmentState.tree : Optional IntervalTree
    stamp,                \* the FedStamp in use : Optional [pdtimestamp, _status_cache]
    resolved,             \* the calls of get_state made for the FedStamp in use
    ret,                  \* what the last call returned: [op, arg, value]
    err,                  \* the exception the last call raised, "" if none
    threads               \* the threads inside Tree() or Tree.initialize_tree()

vars == <<CR_DEPARTMENTS, APPROPRIATIONS_GAPS, cr_instance, gap_instance,
          cr_tree, gap_tree, tree, state_tree, stamp, resolved, ret, err,
          threads>>

treeVars == <<cr_instance, gap_instance, cr_tree, gap_tree, tree>>

----------------------------------------------------------------------------
(* Bounds *)

\* Source tables and queried dates use the day offsets 0..MaxDay.
MaxDay == 2

Days == 0..MaxDay

\* The threads that make the first use of Tree together.
NThreads == 2

Threads == 1..NThreads

----------------------------------------------------------------------------
(* Python values *)

None == <<>>

Some(v) == <<v>>

\* bool(x) of an Optional IntervalTree or dict: None and the empty
\* container are falsy.
Truthy(opt) == opt # None /\ opt[1] # {}

\* bool(x) of an Optional dict, the dict being a TLA+ function.
TruthyDict(opt) == opt # None /\ DOMAIN opt[1] # {}

\* bool(x) of an Optional attrs instance: an instance is always truthy.
TruthyObj(opt) == opt # None

----------------------------------------------------------------------------
(* fedcal.constants *)

DHS == "DHS"

\* The Dept enumeration: DHS, which forms mid-timeline, and three
\* departments that exist throughout.
DEPTS_SET == {DHS, "DoD", "DoJ", "DoS"}

\* Day offset of the formation of DHS.
DHS_FORMED == 2

\* Day offset of the first day with CR data.
CR_DATA_CUTOFF_DATE == 1

SHUTDOWN == "SHUTDOWN"

NO_SHUTDOWN == "NO_SHUTDOWN"

ShutdownFlag == {SHUTDOWN, NO_SHUTDOWN}

\* Short key -> StatusTuple (appropriations status, operational status).
STATUS_MAP ==
    [DEFAULT_STATUS |-> <<"FULLY_APPROPRIATED", "OPEN">>,
     CR_STATUS |-> <<"TEMPORARILY_APPROPRIATED", "OPEN">>,
     GAP_STATUS |-> <<"NOT_APPROPRIATED", "MINIMALLY_OPEN">>,
     SHUTDOWN_STATUS |-> <<"NOT_APPROPRIATED", "SHUTDOWN">>,
     CR_DATA_CUTOFF_DEFAULT_STATUS |-> <<"FULLY_OR_TEMPORARILY_APPROPRIATED", "OPEN">>]

StatusKeys == DOMAIN STATUS_MAP

----------------------------------------------------------------------------
(* fedcal.time_utils *)

SecondsPerDay == 86400

\* to_timestamp of an int: a bare integer is taken as POSIX seconds and
\* becomes the Timestamp of the day that holds that second.
_posix_to_timestamp(date_input) == (date_input \div SecondsPerDay) * SecondsPerDay

\* The day offset of a Timestamp: whole days since the epoch.
pdtimestamp_to_posix_day(timestamp) == timestamp \div SecondsPerDay

\* The Timestamp of a day offset (a pd.Timestamp built for that date).
Timestamp(day) == day * SecondsPerDay

----------------------------------------------------------------------------
(* _tree.py: interval helpers *)

\* `x is not isinstance(x, int)` compares the value with a bool by
\* identity; no date or day offset is the object True or False, so the
\* test holds for every input and the conversion always runs.
IsNotIsinstanceInt(x) == TRUE

_get_date_interval(dates) ==
    LET start == IF IsNotIsinstanceInt(dates[1])
                 THEN pdtimestamp_to_posix_day(_posix_to_timestamp(dates[1]))
                 ELSE dates[1]
        end   == IF IsNotIsinstanceInt(dates[2])
                 THEN pdtimestamp_to_posix_day(_posix_to_timestamp(dates[2]))
                 ELSE dates[2]
    IN <<start, end>>

\* Returns Some(<<overlap_start, overlap_end>>) or None.
_get_overlap_interval(start, end, date_range) ==
    IF date_range = None
    THEN Some(<<start, end>>)
    ELSE LET start_range == IF IsNotIsinstanceInt(date_range[1][1])
                            THEN pdtimestamp_to_posix_day(
                                     _posix_to_timestamp(date_range[1][1]))
                            ELSE date_range[1][1]
             \* the source converts the already converted start_range here
             end_range   == IF IsNotIsinstanceInt(date_range[1][2])
                            THEN pdtimestamp_to_posix_day(
                                     _posix_to_timestamp(start_range))
                            ELSE date_range[1][2]
         IN IF end < start_range \/ start > end_range
            THEN None
            ELSE Some(<<IF start > start_range THEN start ELSE start_range,
                        IF end < end_range THEN end ELSE end_range>>)

\* intervaltree.Interval
Interval(begin, end, data) == [begin |-> begin, end |-> end, data |-> data]

\* IntervalTree.addi: a null interval (begin >= end) raises ValueError; an
\* interval already in the tree is not added twice.
addi(t, begin, end, data) ==
    IF begin >= end
    THEN [tree |-> t, raised |-> "ValueError"]
    ELSE [tree |-> t \cup {Interval(begin, end, data)}, raised |-> ""]

\* IntervalTree.at / tree[point]: the intervals that contain the point,
\* begin inclusive and end exclusive.
at(t, point) == {iv \in t : iv.begin <= point /\ point < iv.end}

\* A union that keeps of `other` only what overlaps no interval of t.
union_without_overlaps(t, other) ==
    t \cup {iv \in other :
               ~\E kept \in t : kept.begin < iv.end /\ iv.begin < kept.end}

\* IntervalTree.union: a new tree over the set union of the intervals.
union(t, other) == t \cup other

----------------------------------------------------------------------------
(* _tree.py: CRTreeGrower *)

\* The complement set taken as the affected set.
_filter_cr_department_sets_no_inversion(departments) == departments

_filter_cr_department_sets(departments) == DEPTS_SET \ departments

\* The inverted set with DHS left in whatever the end day.
generated_departments_keep_dhs(end, departments) ==
    _filter_cr_department_sets(departments)

\* DHS removed only when the entry ends two days or more before formation.
generated_departments_late_removal(end, departments) ==
    IF end < DHS_FORMED - 1
    THEN _filter_cr_department_sets(departments) \ {DHS}
    ELSE _filter_cr_department_sets(departments)

\* The department set grow_cr_tree stores for one source entry.
generated_departments(end, departments) ==
    IF end < DHS_FORMED
    THEN _filter_cr_department_sets(departments) \ {DHS}
    ELSE _filter_cr_department_sets(departments)

\* The source end day stored as it is.
cr_addi_inclusive_end(t, start, end, departments) ==
    addi(t, start, end,
         <<generated_departments(end, departments), STATUS_MAP["CR_STATUS"]>>)

\* The addi call of grow_cr_tree for one source entry.
cr_addi(t, start, end, departments) ==
    addi(t, start, end + 1,
         <<generated_departments(end, departments), STATUS_MAP["CR_STATUS"]>>)

\* The loop of grow_cr_tree over cr_departments.items(), from item i on.
\* An exception leaves the tree as the earlier iterations made it.
RECURSIVE cr_loop(_, _, _, _)
cr_next(added, items, i, date_range) ==
    IF added.raised # ""
    THEN added
    ELSE cr_loop(added.tree, items, i + 1, date_range)

cr_loop(t, items, i, date_range) ==
    IF i > Len(items)
    THEN [tree |-> t, raised |-> ""]
    ELSE IF _get_overlap_interval(items[i].start, items[i].end, date_range) # None
         THEN cr_next(cr_addi(t, items[i].start, items[i].end,
                              items[i].departments),
                      items, i, date_range)
         ELSE cr_loop(t, items, i + 1, date_range)

\* grow_cr_tree without the return of a populated tree.
grow_cr_tree_without_return(self, cr_departments, dates) ==
    cr_loop(self.tree,
            IF cr_departments # None
            THEN cr_departments[1] ELSE self.cr_departments,
            1,
            IF dates # None
            THEN Some(_get_date_interval(dates[1])) ELSE None)

\* self is [tree, cr_departments]; cr_departments and dates are Optional.
\* The loop adds to self.tree itself, so the result is also the new
\* content of self.tree.
grow_cr_tree(self, cr_departments, dates) ==
    IF self.tree # {}
    THEN [tree |-> self.tree, raised |-> ""]
    ELSE cr_loop(self.tree,
                 IF cr_departments # None
                 THEN cr_departments[1] ELSE self.cr_departments,
                 1,
                 IF dates # None
                 THEN Some(_get_date_interval(dates[1])) ELSE None)

\* The instance whose __attrs_post_init__ got `grown` from grow_cr_tree;
\* no instance when that call raised.
cr_grower(grown, cr_departments) ==
    [instance |-> IF grown.raised = ""
                  THEN Some([tree |-> grown.tree,
                             cr_departments |-> cr_departments])
                  ELSE None,
     raised |-> grown.raised]

\* CRTreeGrower(): the attrs defaults, then __attrs_post_init__.
CRTreeGrower(cr_departments) ==
    cr_grower(grow_cr_tree([tree |-> {}, cr_departments |-> cr_departments],
                           None, None),
              cr_departments)

----------------------------------------------------------------------------
(* _tree.py: AppropriationsGapsTreeGrower *)

\* addi called in the else branch only.
gap_addi_else_only(t, start, end, departments, shutdown) ==
    IF shutdown = SHUTDOWN
    THEN [tree |-> t, raised |-> ""]
    ELSE addi(t, start, end + 1, <<departments, STATUS_MAP["GAP_STATUS"]>>)

\* The addi call of grow_appropriation_gaps_tree for one source entry.
gap_addi(t, start, end, departments, shutdown) ==
    IF shutdown = SHUTDOWN
    THEN addi(t, start, end + 1, <<departments, STATUS_MAP["SHUTDOWN_STATUS"]>>)
    ELSE addi(t, start, end + 1, <<departments, STATUS_MAP["GAP_STATUS"]>>)

RECURSIVE gap_loop(_, _, _, _)
gap_next(added, items, i, date_range) ==
    IF added.raised # ""
    THEN added
    ELSE gap_loop(added.tree, items, i + 1, date_range)

gap_loop(t, items, i, date_range) ==
    IF i > Len(items)
    THEN [tree |-> t, raised |-> ""]
    ELSE IF _get_overlap_interval(items[i].start, items[i].end, date_range) # None
         THEN gap_next(gap_addi(t, items[i].start, items[i].end,
                                items[i].departments, items[i].shutdown),
                       items, i, date_range)
         ELSE gap_loop(t, items, i + 1, date_range)

\* self is [tree, appropriations_gaps, dates]. The dates argument of the
\* method is what bounds the build; self.dates is not read.
grow_appropriation_gaps_tree(self, appropriations_gaps, dates) ==
    IF self.tree # {}
    THEN [tree |-> self.tree, raised |-> ""]
    ELSE gap_loop(self.tree,
                  IF appropriations_gaps # None
                  THEN appropriations_gaps[1] ELSE self.appropriations_gaps,
                  1,
                  IF dates # None
                  THEN Some(_get_date_interval(dates[1])) ELSE None)

gap_grower(grown, appropriations_gaps, dates) ==
    [instance |-> IF grown.raised = ""
                  THEN Some([tree |-> grown.tree,
                             appropriations_gaps |-> appropriations_gaps,
                             dates |-> dates])
                  ELSE None,
     raised |-> grown.raised]

AppropriationsGapsTreeGrower(appropriations_gaps, dates) ==
    gap_grower(grow_appropriation_gaps_tree(
                   [tree |-> {}, appropriations_gaps |-> appropriations_gaps,
                    dates |-> dates], None, None),
               appropriations_gaps, dates)

----------------------------------------------------------------------------
(* _tree.py: Tree *)

\* Tree._initialize_cr_tree: CRTreeGrower() with the default table.
_initialize_cr_tree == CRTreeGrower(CR_DEPARTMENTS)

\* The gap grower handed over before its tree is grown.
_initialize_gap_tree_not_grown ==
    [instance |-> Some([tree |-> {},
                        appropriations_gaps |-> APPROPRIATIONS_GAPS,
                        dates |-> None]),
     raised |-> ""]

\* Tree._initialize_gap_tree: AppropriationsGapsTreeGrower() with the
\* default table and no dates.
_initialize_gap_tree == AppropriationsGapsTreeGrower(APPROPRIATIONS_GAPS, None)

\* Tree._set_cr_tree
_set_cr_tree(cls) == cls.cr_instance[1].tree

\* Tree._set_gap_tree
_set_gap_tree(cls) == cls.gap_instance[1].tree

\* The class attributes of Tree, as one record.
TreeClass ==
    [cr_instance |-> cr_instance, gap_instance |-> gap_instance,
     cr_tree |-> cr_tree, gap_tree |-> gap_tree, tree |-> tree]

\* Tree.initialize_tree is modelled statement by statement. Each step
\* maps [cls, raised], the class attributes and the exception raised so
\* far, to the same after the statement; an exception skips what follows
\* it and keeps the assignments made before it.

\* cls.cr_instance = <made>
assign_cr_instance(cls, made) ==
    IF made.raised # ""
    THEN [cls |-> cls, raised |-> made.raised]
    ELSE [cls |-> [cls EXCEPT !.cr_instance = made.instance], raised |-> ""]

\* if not cls.cr_instance: cls.cr_instance = cls._initialize_cr_tree()
initialize_cr_instance(cls) ==
    IF ~TruthyObj(cls.cr_instance)
    THEN assign_cr_instance(cls, _initialize_cr_tree)
    ELSE [cls |-> cls, raised |-> ""]

\* cls.gap_instance = <made>
assign_gap_instance(cls, made) ==
    IF made.raised # ""
    THEN [cls |-> cls, raised |-> made.raised]
    ELSE [cls |-> [cls EXCEPT !.gap_instance = made.instance], raised |-> ""]

\* if not cls.gap_instance: cls.gap_instance = cls._initialize_gap_tree()
initialize_gap_instance(step) ==
    IF step.raised # ""
    THEN step
    ELSE IF ~TruthyObj(step.cls.gap_instance)
         THEN assign_gap_instance(step.cls, _initialize_gap_tree)
         ELSE step

\* if not cls.cr_tree: cls.cr_tree = cls._set_cr_tree()
initialize_cr_tree(step) ==
    IF step.raised # ""
    THEN step
    ELSE [step EXCEPT !.cls.cr_tree =
             IF ~Truthy(@) THEN Some(_set_cr_tree(step.cls)) ELSE @]

\* if not cls.gap_tree: cls.gap_tree = cls._set_gap_tree()
initialize_gap_tree(step) ==
    IF step.raised # ""
    THEN step
    ELSE [step EXCEPT !.cls.gap_tree =
             IF ~Truthy(@) THEN Some(_set_gap_tree(step.cls)) ELSE @]

\* return cls.cr_tree
initialize_tree_return_cr_tree(cls) == cls.cr_tree

\* return cls.cr_tree.union(other=cls.gap_tree)
initialize_tree_return(cls) == Some(union(cls.cr_tree[1], cls.gap_tree[1]))

\* The result of the call: the class attributes after it, the returned
\* tree and the exception raised.
initialize_tree_result(step) ==
    [cls |-> step.cls,
     value |-> IF step.raised = ""
               THEN initialize_tree_return(step.cls) ELSE None,
     raised |-> step.raised]

\* initialize_tree whose first branch returns the cached CR tree.
initialize_tree_returns_cached_cr_tree(cls) ==
    IF Truthy(cls.tree)
    THEN [cls |-> cls, value |-> cls.cr_tree, raised |-> ""]
    ELSE initialize_tree_result(
             initialize_gap_tree(
                 initialize_cr_tree(
                     initialize_gap_instance(
                         initialize_cr_instance(cls)))))

\* Tree.initialize_tree on the class attributes cls.
initialize_tree(cls) ==
    IF Truthy(cls.tree)
    THEN [cls |-> cls, value |-> cls.tree, raised |-> ""]
    ELSE initialize_tree_result(
             initialize_gap_tree(
                 initialize_cr_tree(
                     initialize_gap_instance(
                         initialize_cr_instance(cls)))))

\* type(self).tree = <result of initialize_tree>
assign_tree(result) ==
    IF result.raised # ""
    THEN result
    ELSE [result EXCEPT !.cls.tree = result.value]

\* Tree(): __attrs_post_init__ stores what initialize_tree returns in the
\* class attribute tree.
Tree__attrs_post_init__(cls) == assign_tree(initialize_tree(cls))

----------------------------------------------------------------------------
(* _dept_status.py: DepartmentState (written from the design document) *)

FedDepartment(name, status) == [name |-> name, status |-> status]

\* departments_active_on(date): DHS is a member from its formation day on.
get_depts_set_at_time(day) ==
    IF day >= DHS_FORMED THEN DEPTS_SET ELSE DEPTS_SET \ {DHS}

\* DepartmentState().get_state_tree(): the lazy build of the unified tree,
\* kept in DepartmentState.tree.
get_state_tree(cls) == Tree__attrs_post_init__(cls)

\* resolve(date), steps 1 to 4 and 6 of section 4.5 on the tree t.
get_state(t, date) ==
    LET day      == pdtimestamp_to_posix_day(date)
        data     == at(t, day)
        default  == IF day < CR_DATA_CUTOFF_DATE
                    THEN STATUS_MAP["CR_DATA_CUTOFF_DEFAULT_STATUS"]
                    ELSE STATUS_MAP["DEFAULT_STATUS"]
        affected == UNION {iv.data[1] : iv \in data}
        given(d) == {iv.data[2] : iv \in {x \in data : d \in x.data[1]}}
    IN  IF \E d \in affected : Cardinality(given(d)) > 1
        THEN [value |-> None, raised |-> "DataIntegrityError"]
        ELSE [value |-> Some(
                  [d \in get_depts_set_at_time(day) \cup affected |->
                      FedDepartment(d, IF d \in affected
                                       THEN CHOOSE st \in given(d) : TRUE
                                       ELSE default)]),
              raised |-> ""]

----------------------------------------------------------------------------
(* fedstamp.py: FedStamp *)

\* FedStamp(pdtimestamp) for a pd.Timestamp argument.
FedStamp(pdtimestamp) == [pdtimestamp |-> pdtimestamp, _status_cache |-> None]

posix_day(self) == pdtimestamp_to_posix_day(self.pdtimestamp)

\* return state.get_state(date=self.pdtimestamp), after the build `built`.
\* The field resolved of a result counts the calls of get_state made.
state_get_state(self, built, got) ==
    [cls |-> built.cls, dstree |-> built.value,
     value |-> got.value, raised |-> got.raised, resolved |-> 1]

\* state = DepartmentState(); state.get_state_tree(), with result `built`,
\* and the return statement after them.
state_built(self, dstree, built) ==
    IF built.raised # ""
    THEN [cls |-> built.cls, dstree |-> dstree,
          value |-> None, raised |-> built.raised, resolved |-> 0]
    ELSE state_get_state(self, built,
                         get_state(built.value[1], self.pdtimestamp))

\* FedStamp._get_status_cache. The local `state` is bound only in the
\* branch that finds DepartmentState.tree falsy; the return statement
\* reads it in both.
_get_status_cache(self, cls, dstree) ==
    IF ~Truthy(dstree)
    THEN state_built(self, dstree, get_state_tree(cls))
    ELSE [cls |-> cls, dstree |-> dstree,
          value |-> None, raised |-> "UnboundLocalError", resolved |-> 0]

\* self._status_cache = <got>
assign_status_cache(self, got) ==
    [self |-> IF got.raised = ""
              THEN [self EXCEPT !._status_cache = got.value]
              ELSE self,
     cls |-> got.cls, dstree |-> got.dstree, raised |-> got.raised,
     resolved |-> got.resolved]

\* _set_status_cache that asks _get_status_cache whether or not a cache
\* is held.
_set_status_cache_always_get(self, cls, dstree) ==
    assign_status_cache(self, _get_status_cache(self, cls, dstree))

\* FedStamp._set_status_cache: self._status_cache or self._get_status_cache()
_set_status_cache(self, cls, dstree) ==
    IF TruthyDict(self._status_cache)
    THEN [self |-> self, cls |-> cls, dstree |-> dstree, raised |-> "",
          resolved |-> 0]
    ELSE assign_status_cache(self, _get_status_cache(self, cls, dstree))

\* get_departments_by_status without the replacement of the status key
\* for dates before the first day with CR data.
get_departments_by_status_no_cutoff(self, status_key) ==
    LET cache == self._status_cache
        target_status == IF status_key \in DOMAIN STATUS_MAP
                         THEN Some(STATUS_MAP[status_key]) ELSE None
    IN  IF cache = None \/ target_status = None
        THEN <<>>
        ELSE [dept \in {d \in DOMAIN cache[1] :
                           cache[1][d].status = target_status[1]} |->
                 cache[1][dept]]

\* The part of get_departments_by_status after _set_status_cache: the
\* entries of the cache whose status tuple is the target of status_key.
get_departments_by_status(self, status_key) ==
    LET cache == self._status_cache
        key == IF posix_day(self) < CR_DATA_CUTOFF_DATE
                  /\ status_key \in {"DEFAULT_STATUS", "CR_STATUS"}
               THEN "CR_DATA_CUTOFF_DEFAULT_STATUS"
               ELSE status_key
        target_status == IF key \in DOMAIN STATUS_MAP
                         THEN Some(STATUS_MAP[key]) ELSE None
    IN  IF cache = None \/ target_status = None
        THEN <<>>
        ELSE [dept \in {d \in DOMAIN cache[1] :
                           cache[1][d].status = target_status[1]} |->
                 cache[1][dept]]

\* The part of get_feddepts_status after _set_status_cache: cache.get of
\* every requested department, None for a department the cache lacks.
get_feddepts_status(self, departments) ==
    {IF dept \in DOMAIN self._status_cache[1]
     THEN Some(self._status_cache[1][dept]) ELSE None : dept \in departments}

----------------------------------------------------------------------------
(* Source tables *)

\* Complement sets of CR entries: DHS or not, together with none, one or
\* two of the other departments.
CRDeptSets ==
    {S \in SUBSET DEPTS_SET : "DoS" \notin S /\ ("DoJ" \in S => "DoD" \in S)}

\* Affected sets of gap entries: one department, alone or with DHS.
GapDeptSets == {{"DoD"}, {DHS, "DoD"}}

\* (start, end) -> complement set, both days inclusive.
CRItems ==
    {[start |-> s, end |-> e, departments |-> c] :
        s \in Days, e \in Days, c \in CRDeptSets}

\* (start, end) -> (affected set, shutdown flag).
GapItems ==
    {[start |-> s, end |-> e, departments |-> c, shutdown |-> f] :
        s \in Days, e \in Days, c \in GapDeptSets, f \in ShutdownFlag}

WellFormed(item) == item.start <= item.end

\* A table holds no entry or one entry.
Tables(items) == {<<>>} \cup {<<i>> : i \in {x \in items : WellFormed(x)}}

----------------------------------------------------------------------------
(* The state machine *)

\* Department filters passed to get_feddepts_status.
Filters == {{DHS}, {DHS, "DoD"}, DEPTS_SET}

NoReturn == [op |-> "", arg |-> None, value |-> None]

Returned(op, arg, value) == [op |-> op, arg |-> arg, value |-> value]

\* A thread that has not called Tree yet: its position, the call it
\* makes, the tree the call returned and the steps of the build it ran.
IdleThread == [pc |-> "idle", op |-> "", value |-> None, made |-> {}]

NoThreads == [t \in Threads |-> IdleThread]

Init ==
    /\ CR_DEPARTMENTS \in Tables(CRItems)
    /\ APPROPRIATIONS_GAPS \in Tables(GapItems)
    /\ cr_instance = None
    /\ gap_instance = None
    /\ cr_tree = None
    /\ gap_tree = None
    /\ tree = None
    /\ state_tree = None
    /\ stamp = None
    /\ resolved = 0
    /\ ret = NoReturn
    /\ err = ""
    /\ threads = NoThreads

\* The class attributes of Tree become cls.
SetTreeClass(cls) ==
    /\ cr_instance' = cls.cr_instance
    /\ gap_instance' = cls.gap_instance
    /\ cr_tree' = cls.cr_tree
    /\ gap_tree' = cls.gap_tree
    /\ tree' = cls.tree

\* The state after a call on Tree with result r.
TreeReturn(r, op) ==
    /\ SetTreeClass(r.cls)
    /\ err' = r.raised
    /\ ret' = Returned(op, None, r.value)
    /\ UNCHANGED <<CR_DEPARTMENTS, APPROPRIATIONS_GAPS, state_tree, stamp,
                   resolved, threads>>

\* Tree()
TreeNew == TreeReturn(Tree__attrs_post_init__(TreeClass), "Tree")

\* Tree.initialize_tree()
TreeInitialize == TreeReturn(initialize_tree(TreeClass), "initialize_tree")

\* FedStamp(pdtimestamp=Timestamp of day)
FedStampNew(day) ==
    /\ stamp' = Some(FedStamp(Timestamp(day)))
    /\ resolved' = 0
    /\ err' = ""
    /\ ret' = NoReturn
    /\ UNCHANGED <<CR_DEPARTMENTS, APPROPRIATIONS_GAPS, state_tree, threads>>
    /\ UNCHANGED treeVars

\* The state after a status getter of the FedStamp in use: r is what its
\* _set_status_cache call did, value what the getter then returned.
StatusReturn(r, op, arg, value) ==
    /\ SetTreeClass(r.cls)
    /\ state_tree' = r.dstree
    /\ stamp' = Some(r.self)
    /\ resolved' = resolved + r.resolved
    /\ err' = r.raised
    /\ ret' = Returned(op, arg, IF r.raised = "" THEN Some(value) ELSE None)
    /\ UNCHANGED <<CR_DEPARTMENTS, APPROPRIATIONS_GAPS, threads>>

all_depts_status(r) ==
    StatusReturn(r, "all_depts_status", None, r.self._status_cache[1])

\* FedStamp.all_depts_status
AllDeptsStatus ==
    /\ stamp # None
    /\ all_depts_status(_set_status_cache(stamp[1], TreeClass, state_tree))

departments_by_status(r, status_key) ==
    StatusReturn(r, "get_departments_by_status", Some(status_key),
                 get_departments_by_status(r.self, status_key))

\* FedStamp.get_departments_by_status(status_key)
GetDepartmentsByStatus(status_key) ==
    /\ stamp # None
    /\ departments_by_status(
           _set_status_cache(stamp[1], TreeClass, state_tree), status_key)

feddepts_status(r, departments) ==
    StatusReturn(r, "get_feddepts_status", Some(departments),
                 get_feddepts_status(r.self, departments))

\* FedStamp.get_feddepts_status(departments)
GetFeddeptsStatus(departments) ==
    /\ stamp # None
    /\ feddepts_status(
           _set_status_cache(stamp[1], TreeClass, state_tree), departments)

Next ==
    \/ TreeNew
    \/ TreeInitialize
    \/ \E day \in Days : FedStampNew(day)
    \/ AllDeptsStatus
    \/ \E status_key \in StatusKeys : GetDepartmentsByStatus(status_key)
    \/ \E departments \in Filters : GetFeddeptsStatus(departments)

Spec == Init /\ [][Next]_vars

----------------------------------------------------------------------------
(* The builders called again, with a source table and a date range *)

\* The dates argument of a builder: None, or the (start, end) pair of
\* the Timestamps of two days.
DateRanges ==
    {None} \cup
    {Some(<<Timestamp(pair[1]), Timestamp(pair[2])>>) :
        pair \in {p \in Days \X Days : p[1] <= p[2]}}

\* CR tables of this part: no entry, or one entry that runs to the last
\* day and excludes DoD.
GrowCRTables ==
    {t \in Tables(CRItems) :
        \A i \in 1..Len(t) :
            t[i].end = MaxDay /\ t[i].departments = {"DoD"}}

\* Gap tables of this part: no entry, or one shutdown of DoD that runs to
\* the last day.
GrowGapTables ==
    {t \in Tables(GapItems) :
        \A i \in 1..Len(t) :
            /\ t[i].end = MaxDay
            /\ t[i].departments = {"DoD"}
            /\ t[i].shutdown = SHUTDOWN}

\* A malformed table of each kind: one entry that ends before it starts.
MalformedCRTables ==
    {<<i>> : i \in {x \in CRItems :
                       /\ x.start = MaxDay /\ x.end = 0
                       /\ x.departments = {"DoD"}}}

MalformedGapTables ==
    {<<i>> : i \in {x \in GapItems :
                       /\ x.start = MaxDay /\ x.end = 0
                       /\ x.departments = {"DoD"} /\ x.shutdown = SHUTDOWN}}

\* The default tables of this part: empty, or one entry over all days.
InitGrow ==
    /\ CR_DEPARTMENTS \in {t \in GrowCRTables :
                               \A i \in 1..Len(t) : t[i].start = 0}
    /\ APPROPRIATIONS_GAPS \in {t \in GrowGapTables :
                                    \A i \in 1..Len(t) : t[i].start = 0}
    /\ cr_instance = None
    /\ gap_instance = None
    /\ cr_tree = None
    /\ gap_tree = None
    /\ tree = None
    /\ state_tree = None
    /\ stamp = None
    /\ resolved = 0
    /\ ret = NoReturn
    /\ err = ""
    /\ threads = NoThreads

\* The arguments of a builder call, as ret.arg keeps them.
GrowArgs(table, dates) == Some([table |-> table, dates |-> dates])

\* The state after grow_cr_tree on Tree.cr_instance gave `grown`. The
\* loop adds to self.tree itself, and Tree.cr_tree, once set, is that
\* same IntervalTree.
CRGrown(grown, cr_departments, dates) ==
    /\ cr_instance' = Some([cr_instance[1] EXCEPT !.tree = grown.tree])
    /\ cr_tree' = IF cr_tree # None THEN Some(grown.tree) ELSE cr_tree
    /\ err' = grown.raised
    /\ ret' = Returned("grow_cr_tree", GrowArgs(cr_departments, dates),
                       IF grown.raised = "" THEN Some(grown.tree) ELSE None)
    /\ UNCHANGED <<CR_DEPARTMENTS, APPROPRIATIONS_GAPS, gap_instance,
                   gap_tree, tree, state_tree, stamp, resolved,
                   threads>>

\* Tree.cr_instance.grow_cr_tree(cr_departments, dates)
GrowCRTree(cr_departments, dates) ==
    /\ cr_instance # None
    /\ CRGrown(grow_cr_tree(cr_instance[1], cr_departments, dates),
               cr_departments, dates)

\* The same for grow_appropriation_gaps_tree on Tree.gap_instance.
GapGrown(grown, appropriations_gaps, dates) ==
    /\ gap_instance' = Some([gap_instance[1] EXCEPT !.tree = grown.tree])
    /\ gap_tree' = IF gap_tree # None THEN Some(grown.tree) ELSE gap_tree
    /\ err' = grown.raised
    /\ ret' = Returned("grow_appropriation_gaps_tree",
                       GrowArgs(appropriations_gaps, dates),
                       IF grown.raised = "" THEN Some(grown.tree) ELSE None)
    /\ UNCHANGED <<CR_DEPARTMENTS, APPROPRIATIONS_GAPS, cr_instance,
                   cr_tree, tree, state_tree, stamp, resolved,
                   threads>>

\* Tree.gap_instance.grow_appropriation_gaps_tree(appropriations_gaps, dates)
GrowGapTree(appropriations_gaps, dates) ==
    /\ gap_instance # None
    /\ GapGrown(grow_appropriation_gaps_tree(gap_instance[1],
                                             appropriations_gaps, dates),
                appropriations_gaps, dates)

\* The state after AppropriationsGapsTreeGrower(...) gave `made`, a
\* grower of its own that Tree does not keep.
GapGrowerMade(made, appropriations_gaps, dates) ==
    /\ err' = made.raised
    /\ ret' = Returned("AppropriationsGapsTreeGrower",
                       GrowArgs(Some(appropriations_gaps), dates),
                       IF made.raised = ""
                       THEN Some(made.instance[1].tree) ELSE None)
    /\ UNCHANGED <<CR_DEPARTMENTS, APPROPRIATIONS_GAPS, state_tree, stamp,
                   resolved, threads>>
    /\ UNCHANGED treeVars

\* AppropriationsGapsTreeGrower(appropriations_gaps=..., dates=...)
NewGapGrower(appropriations_gaps, dates) ==
    GapGrowerMade(AppropriationsGapsTreeGrower(appropriations_gaps, dates),
                  appropriations_gaps, dates)

NextGrow ==
    \/ TreeNew
    \/ TreeInitialize
    \/ \E table \in {None} \cup
                    {Some(t) : t \in GrowCRTables \cup MalformedCRTables},
          dates \in DateRanges : GrowCRTree(table, dates)
    \/ \E table \in {None} \cup
                    {Some(t) : t \in GrowGapTables \cup MalformedGapTables},
          dates \in DateRanges : GrowGapTree(table, dates)
    \/ \E table \in GrowGapTables, dates \in DateRanges :
           NewGapGrower(table, dates)

SpecGrow == InitGrow /\ [][NextGrow]_vars

----------------------------------------------------------------------------
(* The interval helpers called on their own *)

\* Dates as the helpers receive them: day offsets (int) and the
\* Timestamps of the same days.
DateInputs == Days \cup {Timestamp(day) : day \in Days}

\* No table, no tree: only the helpers are called.
InitInterval ==
    /\ CR_DEPARTMENTS = <<>>
    /\ APPROPRIATIONS_GAPS = <<>>
    /\ cr_instance = None
    /\ gap_instance = None
    /\ cr_tree = None
    /\ gap_tree = None
    /\ tree = None
    /\ state_tree = None
    /\ stamp = None
    /\ resolved = 0
    /\ ret = NoReturn
    /\ err = ""
    /\ threads = NoThreads

\* The state after a helper returned value for the argument arg.
HelperReturn(op, arg, value) ==
    /\ ret' = Returned(op, Some(arg), Some(value))
    /\ err' = ""
    /\ UNCHANGED <<CR_DEPARTMENTS, APPROPRIATIONS_GAPS, state_tree, stamp,
                   resolved, threads>>
    /\ UNCHANGED treeVars

\* _get_date_interval(dates)
GetDateInterval(dates) ==
    HelperReturn("_get_date_interval", dates, _get_date_interval(dates))

\* _get_overlap_interval(start, end, date_range)
GetOverlapInterval(start, end, date_range) ==
    HelperReturn("_get_overlap_interval",
                 [start |-> start, end |-> end, date_range |-> date_range],
                 _get_overlap_interval(start, end, date_range))

NextInterval ==
    \/ \E dates \in DateInputs \X DateInputs : GetDateInterval(dates)
    \/ \E start \in Days, end \in Days,
          date_range \in {None} \cup
                         {Some(pair) : pair \in DateInputs \X DateInputs} :
           start <= end /\ GetOverlapInterval(start, end, date_range)

SpecInterval == InitInterval /\ [][NextInterval]_vars

----------------------------------------------------------------------------
(* Tree used by several threads at once *)

\* Each thread makes one request, Tree() or Tree.initialize_tree(), and
\* runs it one statement at a time; pc is the line of _tree.py the thread
\* executes next. No statement of Tree takes a lock, so the statements of
\* the threads interleave freely.

notTreeVars ==
    <<CR_DEPARTMENTS, APPROPRIATIONS_GAPS, state_tree, stamp, resolved, ret, err>>

InitThreads == InitGrow

\* Thread t moves to line pc.
Goto(t, pc) == threads' = [threads EXCEPT ![t].pc = pc]

\* Where a thread goes when initialize_tree returns: Tree() still has to
\* assign the class attribute, initialize_tree() is done.
AfterReturn(op) == IF op = "Tree" THEN "419" ELSE "done"

\* Thread t calls Tree() or Tree.initialize_tree().
Call(t, op) ==
    /\ threads[t].pc = "idle"
    /\ threads' = [threads EXCEPT ![t].pc = "478", ![t].op = op]
    /\ UNCHANGED treeVars
    /\ UNCHANGED notTreeVars

\* if cls.tree: return cls.tree
CheckTree(t) ==
    /\ threads[t].pc = "478"
    /\ threads' = IF Truthy(tree)
                  THEN [threads EXCEPT ![t].pc = AfterReturn(threads[t].op),
                                       ![t].value = tree]
                  ELSE [threads EXCEPT ![t].pc = "480"]
    /\ UNCHANGED treeVars
    /\ UNCHANGED notTreeVars

\* if not cls.cr_instance:
CheckCRInstance(t) ==
    /\ threads[t].pc = "480"
    /\ Goto(t, IF ~TruthyObj(cr_instance) THEN "481" ELSE "482")
    /\ UNCHANGED treeVars
    /\ UNCHANGED notTreeVars

\* The state after thread t ran a statement that left the class
\* attributes and the exception of `step`; made is the part of the build
\* the statement ran.
ThreadStepped(t, step, pc, made) ==
    /\ SetTreeClass(step.cls)
    /\ threads' = [threads EXCEPT
                      ![t].pc = IF step.raised = "" THEN pc ELSE "done",
                      ![t].made = @ \cup made]
    /\ UNCHANGED notTreeVars

\* cls.cr_instance = cls._initialize_cr_tree()
MakeCRInstance(t) ==
    /\ threads[t].pc = "481"
    /\ ThreadStepped(t, assign_cr_instance(TreeClass, _initialize_cr_tree),
                     "482", {"cr_instance"})

\* if not cls.gap_instance:
CheckGapInstance(t) ==
    /\ threads[t].pc = "482"
    /\ Goto(t, IF ~TruthyObj(gap_instance) THEN "483" ELSE "484")
    /\ UNCHANGED treeVars
    /\ UNCHANGED notTreeVars

\* cls.gap_instance = cls._initialize_gap_tree()
MakeGapInstance(t) ==
    /\ threads[t].pc = "483"
    /\ ThreadStepped(t, assign_gap_instance(TreeClass, _initialize_gap_tree),
                     "484", {"gap_instance"})

\* if not cls.cr_tree:
CheckCRTree(t) ==
    /\ threads[t].pc = "484"
    /\ Goto(t, IF ~Truthy(cr_tree) THEN "485" ELSE "486")
    /\ UNCHANGED treeVars
    /\ UNCHANGED notTreeVars

\* cls.cr_tree = cls._set_cr_tree()
SetCRTree(t) ==
    /\ threads[t].pc = "485"
    /\ cr_tree' = Some(_set_cr_tree(TreeClass))
    /\ Goto(t, "486")
    /\ UNCHANGED <<cr_instance, gap_instance, gap_tree, tree>>
    /\ UNCHANGED notTreeVars

\* if not cls.gap_tree:
CheckGapTree(t) ==
    /\ threads[t].pc = "486"
    /\ Goto(t, IF ~Truthy(gap_tree) THEN "487" ELSE "489")
    /\ UNCHANGED treeVars
    /\ UNCHANGED notTreeVars

\* cls.gap_tree = cls._set_gap_tree()
SetGapTree(t) ==
    /\ threads[t].pc = "487"
    /\ gap_tree' = Some(_set_gap_tree(TreeClass))
    /\ Goto(t, "489")
    /\ UNCHANGED <<cr_instance, gap_instance, cr_tree, tree>>
    /\ UNCHANGED notTreeVars

\* return cls.cr_tree.union(other=cls.gap_tree)
ReturnUnion(t) ==
    /\ threads[t].pc = "489"
    /\ threads' = [threads EXCEPT
                      ![t].pc = AfterReturn(threads[t].op),
                      ![t].value = initialize_tree_return(TreeClass),
                      ![t].made = @ \cup {"union"}]
    /\ UNCHANGED treeVars
    /\ UNCHANGED notTreeVars

\* type(self).tree = <what initialize_tree returned>
AssignTree(t) ==
    /\ threads[t].pc = "419"
    /\ tree' = threads[t].value
    /\ Goto(t, "done")
    /\ UNCHANGED <<cr_instance, gap_instance, cr_tree, gap_tree>>
    /\ UNCHANGED notTreeVars

NextThreads ==
    \E t \in Threads :
        \/ \E op \in {"Tree", "initialize_tree"} : Call(t, op)
        \/ CheckTree(t)
        \/ CheckCRInstance(t)
        \/ MakeCRInstance(t)
        \/ CheckGapInstance(t)
        \/ MakeGapInstance(t)
        \/ CheckCRTree(t)
        \/ SetCRTree(t)
        \/ CheckGapTree(t)
        \/ SetGapTree(t)
        \/ ReturnUnion(t)
        \/ AssignTree(t)

SpecThreads == InitThreads /\ [][NextThreads]_vars

----------------------------------------------------------------------------
(* Vocabulary of the properties *)

\* The day is inside the stored half-open interval.
Covers(iv, day) == iv.begin <= day /\ day < iv.end

\* No interval of t that covers the day names the department.
Uncovered(t, dept, day) ==
    ~\E iv \in t : Covers(iv, day) /\ dept \in iv.data[1]

\* The status of a department-day without exception.
ExpectedDefault(day) ==
    IF day < CR_DATA_CUTOFF_DATE
    THEN STATUS_MAP["CR_DATA_CUTOFF_DEFAULT_STATUS"]
    ELSE STATUS_MAP["DEFAULT_STATUS"]

\* The FedStamp in use holds a resolved status mapping.
StampCached == stamp # None /\ stamp[1]._status_cache # None

StampDay == posix_day(stamp[1])

\* Both growers of Tree exist.
GrowersBuilt == cr_instance # None /\ gap_instance # None

GapStatuses == {STATUS_MAP["GAP_STATUS"], STATUS_MAP["SHUTDOWN_STATUS"]}

----------------------------------------------------------------------------
(* C1 *)

----------------------------------------------------------------------------
(* C2 *)

\* The interval of t stored for the source entry: begin S, end E + 1.
StoredFor(t, item) ==
    {iv \in t : iv.begin = item.start /\ iv.end = item.end + 1}

\* Every entry of the table has its interval [S, E + 1) in t, found by a
\* point query at S and at E and not at S - 1 or E + 1, and t holds no
\* interval with other bounds.
HalfOpenStored(t, items) ==
    /\ \A i \in 1..Len(items) :
           \E iv \in StoredFor(t, items[i]) :
               /\ iv \in at(t, items[i].start)
               /\ iv \in at(t, items[i].end)
               /\ iv \notin at(t, items[i].end + 1)
               /\ iv \notin at(t, items[i].start - 1)
    /\ \A iv \in t : \E i \in 1..Len(items) : iv \in StoredFor(t, items[i])

\* C2: for every source entry (S, E) that the CR builder or the gap
\* builder inserts, the stored interval is the half-open range [S, E+1):
\* a point query matches it at day S and at day E, and matches it neither
\* at day E+1 nor at day S-1.
C2_HalfOpenIntervals ==
    /\ cr_instance # None =>
           HalfOpenStored(cr_instance[1].tree, CR_DEPARTMENTS)
    /\ gap_instance # None =>
           HalfOpenStored(gap_instance[1].tree, APPROPRIATIONS_GAPS)

\* Both builders have stored an entry, the CR one of several days and the
\* gap one of a single day.
C2_Witness ==
    /\ GrowersBuilt
    /\ \E i \in 1..Len(CR_DEPARTMENTS) :
           /\ CR_DEPARTMENTS[i].start < CR_DEPARTMENTS[i].end
           /\ StoredFor(cr_instance[1].tree, CR_DEPARTMENTS[i]) # {}
    /\ \E i \in 1..Len(APPROPRIATIONS_GAPS) :
           /\ APPROPRIATIONS_GAPS[i].start = APPROPRIATIONS_GAPS[i].end
           /\ StoredFor(gap_instance[1].tree, APPROPRIATIONS_GAPS[i]) # {}

----------------------------------------------------------------------------
(* C6 *)

\* The department set the CR builder is to store for a source entry.
Included(item) ==
    IF item.end < DHS_FORMED
    THEN (DEPTS_SET \ item.departments) \ {DHS}
    ELSE DEPTS_SET \ item.departments

\* C6: for every CR source entry that grow_cr_tree inserts, the stored
\* department set is the full department set minus the entry's complement
\* set, with DHS also removed when the entry ends before DHS formation,
\* and the interval carries the CR status tuple.
C6_InvertedDepartmentSets ==
    cr_instance # None =>
        /\ \A i \in 1..Len(CR_DEPARTMENTS) :
               \E iv \in StoredFor(cr_instance[1].tree, CR_DEPARTMENTS[i]) :
                   iv.data = <<Included(CR_DEPARTMENTS[i]),
                               STATUS_MAP["CR_STATUS"]>>
        /\ \A iv \in cr_instance[1].tree :
               \E i \in 1..Len(CR_DEPARTMENTS) :
                   /\ iv \in StoredFor(cr_instance[1].tree, CR_DEPARTMENTS[i])
                   /\ iv.data = <<Included(CR_DEPARTMENTS[i]),
                                  STATUS_MAP["CR_STATUS"]>>

\* The CR builder stored an entry that ends on or after DHS formation and
\* whose complement set names some departments but not DHS.
C6_Witness ==
    /\ cr_instance # None
    /\ \E i \in 1..Len(CR_DEPARTMENTS) :
           /\ CR_DEPARTMENTS[i].end >= DHS_FORMED
           /\ CR_DEPARTMENTS[i].departments # {}
           /\ DHS \notin CR_DEPARTMENTS[i].departments
           /\ \E iv \in StoredFor(cr_instance[1].tree, CR_DEPARTMENTS[i]) :
                  DHS \in iv.data[1]

----------------------------------------------------------------------------
(* C7 *)

\* The source end day of a stored interval.
SourceEnd(iv) == iv.end - 1

\* t holds no interval that ends before DHS formation and names DHS.
NoEarlyDHS(t) ==
    \A iv \in t : SourceEnd(iv) < DHS_FORMED => DHS \notin iv.data[1]

\* C7: every interval of the CR tree whose source end day is before the
\* DHS formation day has a department set without DHS, also when the
\* source complement set does not list DHS.
C7_NoDHSBeforeFormationInCRTree ==
    /\ cr_instance # None => NoEarlyDHS(cr_instance[1].tree)
    /\ cr_tree # None => NoEarlyDHS(cr_tree[1])

\* The CR tree of Tree holds the interval of an entry that ends before
\* DHS formation and whose complement set does not list DHS.
C7_Witness ==
    /\ cr_tree # None
    /\ \E i \in 1..Len(CR_DEPARTMENTS) :
           /\ CR_DEPARTMENTS[i].end < DHS_FORMED
           /\ DHS \notin CR_DEPARTMENTS[i].departments
           /\ StoredFor(cr_tree[1], CR_DEPARTMENTS[i]) # {}

----------------------------------------------------------------------------
(* C9 *)

\* C9: for every gap source entry that the gap builder inserts, the
\* stored department set is the source set unchanged, and the stored
\* status is the SHUTDOWN tuple if and only if the entry's flag is
\* SHUTDOWN, otherwise the GAP tuple; an interval is inserted in both
\* cases.
C9_GapEntriesStoredDirectly ==
    gap_instance # None =>
        /\ \A i \in 1..Len(APPROPRIATIONS_GAPS) :
               \E iv \in StoredFor(gap_instance[1].tree,
                                   APPROPRIATIONS_GAPS[i]) :
                   /\ iv.data[1] = APPROPRIATIONS_GAPS[i].departments
                   /\ iv.data[2] = STATUS_MAP["SHUTDOWN_STATUS"]
                          <=> APPROPRIATIONS_GAPS[i].shutdown = SHUTDOWN
                   /\ APPROPRIATIONS_GAPS[i].shutdown # SHUTDOWN
                          => iv.data[2] = STATUS_MAP["GAP_STATUS"]
        /\ \A iv \in gap_instance[1].tree :
               \E i \in 1..Len(APPROPRIATIONS_GAPS) :
                   /\ iv \in StoredFor(gap_instance[1].tree,
                                       APPROPRIATIONS_GAPS[i])
                   /\ iv.data[1] = APPROPRIATIONS_GAPS[i].departments

\* The gap builder stored an entry flagged SHUTDOWN.
C9_Witness ==
    /\ gap_instance # None
    /\ \E i \in 1..Len(APPROPRIATIONS_GAPS) :
           /\ APPROPRIATIONS_GAPS[i].shutdown = SHUTDOWN
           /\ \E iv \in StoredFor(gap_instance[1].tree,
                                  APPROPRIATIONS_GAPS[i]) :
                  iv.data[2] = STATUS_MAP["SHUTDOWN_STATUS"]

----------------------------------------------------------------------------
(* C3 *)

\* Two stored intervals share a day.
Overlap(a, b) == a.begin < b.end /\ b.begin < a.end

\* The resolved mapping of the FedStamp in use.
StampCache == stamp[1]._status_cache[1]

\* A CR interval with two departments and a gap interval with one other
\* department, both covering the day.
SimultaneousCRAndGap(cr, gap, day) ==
    /\ Covers(cr, day)
    /\ Covers(gap, day)
    /\ Cardinality(cr.data[1]) = 2
    /\ Cardinality(gap.data[1]) = 1
    /\ cr.data[1] \cap gap.data[1] = {}

\* C3: for a date covered at the same time by a CR interval whose
\* department set is {A, B} and by a gap interval whose department set is
\* {C}, one resolution gives A and B the CR status and C the gap or
\* shutdown status of its interval, and every other active department
\* keeps its default status.
C3_UnionResolvedInOneCall ==
    (StampCached /\ cr_tree # None /\ gap_tree # None) =>
        \A cr \in cr_tree[1], gap \in gap_tree[1] :
            SimultaneousCRAndGap(cr, gap, StampDay) =>
                /\ \A d \in cr.data[1] :
                       /\ d \in DOMAIN StampCache
                       /\ StampCache[d] =
                              FedDepartment(d, STATUS_MAP["CR_STATUS"])
                /\ \A d \in gap.data[1] :
                       /\ d \in DOMAIN StampCache
                       /\ gap.data[2] \in GapStatuses
                       /\ StampCache[d] = FedDepartment(d, gap.data[2])
                /\ \A d \in get_depts_set_at_time(StampDay)
                               \ (cr.data[1] \cup gap.data[1]) :
                       /\ d \in DOMAIN StampCache
                       /\ StampCache[d] =
                              FedDepartment(d, ExpectedDefault(StampDay))

\* all_depts_status resolved a day that a two-department CR interval and
\* a one-department gap interval cover, a fourth department being active.
C3_Witness ==
    /\ StampCached
    /\ ret.op = "all_depts_status"
    /\ cr_tree # None
    /\ gap_tree # None
    /\ \E cr \in cr_tree[1], gap \in gap_tree[1] :
           /\ SimultaneousCRAndGap(cr, gap, StampDay)
           /\ get_depts_set_at_time(StampDay)
                  \ (cr.data[1] \cup gap.data[1]) # {}

----------------------------------------------------------------------------
(* C4 *)

\* The source tables give one department a CR status and a gap status on
\* the same day.
ConflictingTables ==
    \E i \in 1..Len(CR_DEPARTMENTS), j \in 1..Len(APPROPRIATIONS_GAPS) :
        /\ CR_DEPARTMENTS[i].start <= APPROPRIATIONS_GAPS[j].end
        /\ APPROPRIATIONS_GAPS[j].start <= CR_DEPARTMENTS[i].end
        /\ Included(CR_DEPARTMENTS[i])
               \cap APPROPRIATIONS_GAPS[j].departments # {}

\* C4: when a CR-sourced interval and a gap-sourced interval cover the
\* same day and contain the same department with different status tuples,
\* building the unified tree fails with a data-integrity error and
\* returns no tree.
C4_ConflictFailsTheBuild ==
    (ret.op \in {"Tree", "initialize_tree"} /\ ConflictingTables) =>
        /\ err = "DataIntegrityError"
        /\ ret.value = None

----------------------------------------------------------------------------
(* C5 *)

\* C5: for every date and every department filter F, the filtered status
\* result has exactly one entry per member of F and no entry for a
\* department outside F, whether or not each member of F is active on
\* the date.
C5_ExactlyTheFilterMembers ==
    (ret.op = "get_feddepts_status" /\ ret.value # None) =>
        /\ \A e \in ret.value[1] : e # None /\ e[1].name \in ret.arg[1]
        /\ \A d \in ret.arg[1] :
               Cardinality({e \in ret.value[1] :
                               e # None /\ e[1].name = d}) = 1

----------------------------------------------------------------------------
(* C8 *)

\* The unified trees at hand: Tree.tree, DepartmentState.tree and the
\* tree a build has just returned.
UnifiedTrees ==
    {t \in {tree, state_tree,
            IF ret.op \in {"Tree", "initialize_tree"} THEN ret.value ELSE None} :
        t # None}

----------------------------------------------------------------------------
(* C10 *)

\* t is the union of the two sub-trees of Tree, every record of either
\* found by point queries, and a CR record and a gap record are two records.
UnionOfSubTrees(t) ==
    /\ cr_tree # None
    /\ gap_tree # None
    /\ t = cr_tree[1] \cup gap_tree[1]
    /\ \A iv \in cr_tree[1] \cup gap_tree[1] :
           /\ iv \in at(t, iv.begin)
           /\ iv \in at(t, SourceEnd(iv))
    /\ \A c \in cr_tree[1], g \in gap_tree[1] : c # g /\ {c, g} \subseteq t
    /\ Cardinality(t) = Cardinality(cr_tree[1]) + Cardinality(gap_tree[1])

\* C10: after the unified tree is built its records are exactly the
\* union of the CR tree's and the gap tree's records: every record of
\* either sub-tree is retrievable from it, it holds no other record, and
\* a CR record and a gap record that overlap in time are both kept.
C10_UnifiedTreeIsUnion ==
    \A t \in UnifiedTrees : UnionOfSubTrees(t[1])

\* Tree.tree holds a CR record and a gap record that overlap in time.
C10_Witness ==
    /\ tree # None
    /\ cr_tree # None
    /\ gap_tree # None
    /\ \E c \in cr_tree[1], g \in gap_tree[1] :
           Overlap(c, g) /\ {c, g} \subseteq tree[1]

----------------------------------------------------------------------------
(* C11 *)

\* The calls that ask for the unified tree: Tree() and
\* Tree.initialize_tree().
BuildOps == {"Tree", "initialize_tree"}

\* An earlier request has run the build: both sub-trees of Tree are set.
AlreadyBuilt == cr_tree # None /\ gap_tree # None

\* C11: across any sequence of Tree() constructions and
\* Tree.initialize_tree() calls the unified tree is built once: a request
\* made after the build finds the unified tree cached in the class,
\* returns it and leaves every class attribute as it was.
C11_BuiltExactlyOnce ==
    [][(AlreadyBuilt /\ ret'.op \in BuildOps) =>
           /\ tree # None
           /\ ret'.value = tree
           /\ UNCHANGED treeVars]_vars

----------------------------------------------------------------------------
(* C14 *)

\* C14: building the unified tree again yields the same set of
\* (begin, end, departments, status) records as every earlier build whose
\* result is at hand: the tree the class caches, the tree of
\* DepartmentState and the tree the request before returned.
C14_RebuildIsIdentical ==
    [][(ret'.op \in BuildOps /\ ret'.value # None) =>
           \A t \in UnifiedTrees : ret'.value = t]_vars

\* Tree.initialize_tree() returned a tree of CR and gap records after
\* Tree() had cached one.
C14_Witness ==
    /\ ret.op = "initialize_tree"
    /\ ret.value # None
    /\ tree # None
    /\ \E c \in tree[1], g \in tree[1] :
           /\ c.data[2] = STATUS_MAP["CR_STATUS"]
           /\ g.data[2] \in GapStatuses
    /\ ret.value = tree

----------------------------------------------------------------------------
(* C15 *)

\* C15: once a builder's tree or the unified tree has been constructed,
\* no later operation (a builder called again with any table or range,
\* Tree(), initialize_tree()) adds, removes or changes an interval, also
\* when the first build produced an empty tree.
C15_ImmutableAfterConstruction ==
    [][/\ cr_instance # None =>
              /\ cr_instance' # None
              /\ cr_instance'[1].tree = cr_instance[1].tree
       /\ gap_instance # None =>
              /\ gap_instance' # None
              /\ gap_instance'[1].tree = gap_instance[1].tree
       /\ cr_tree # None => cr_tree' = cr_tree
       /\ gap_tree # None => gap_tree' = gap_tree
       /\ tree # None => tree' = tree]_vars

----------------------------------------------------------------------------
(* C16 *)

\* C16: if a grower's tree is populated, calling its build method again
\* returns that tree with its intervals unchanged, whatever table and
\* date range the call passes.
C16_PopulatedTreeReturnedUnchanged ==
    [][/\ (ret'.op = "grow_cr_tree" /\ cr_instance # None
             /\ cr_instance[1].tree # {}) =>
              /\ ret'.value = Some(cr_instance[1].tree)
              /\ cr_instance' = cr_instance
              /\ UNCHANGED treeVars
       /\ (ret'.op = "grow_appropriation_gaps_tree" /\ gap_instance # None
             /\ gap_instance[1].tree # {}) =>
              /\ ret'.value = Some(gap_instance[1].tree)
              /\ gap_instance' = gap_instance
              /\ UNCHANGED treeVars]_vars

\* grow_cr_tree was called with a table whose entry the populated tree
\* does not hold, and returned the populated tree.
C16_Witness ==
    /\ ret.op = "grow_cr_tree"
    /\ ret.arg[1].table # None
    /\ ret.value # None
    /\ ret.value[1] # {}
    /\ \E i \in 1..Len(ret.arg[1].table[1]) :
           StoredFor(ret.value[1], ret.arg[1].table[1][i]) = {}
    /\ \E i \in 1..Len(CR_DEPARTMENTS) :
           StoredFor(ret.value[1], CR_DEPARTMENTS[i]) # {}

----------------------------------------------------------------------------
(* C17 *)

\* The table a builder call works on: the argument, or the grower's own.
CallTable(arg, own) == IF arg.table # None THEN arg.table[1] ELSE own

\* The days of a date range given as two Timestamps.
RangeDays(dates) ==
    <<pdtimestamp_to_posix_day(dates[1]), pdtimestamp_to_posix_day(dates[2])>>

\* The entry's days [start, end] and the range share a day; with no
\* range every entry does.
EntryOverlaps(item, dates) ==
    \/ dates = None
    \/ /\ item.start <= RangeDays(dates[1])[2]
       /\ RangeDays(dates[1])[1] <= item.end

\* The tree holds an interval for exactly the entries that overlap.
HoldsOverlapping(t, items, dates) ==
    \A i \in 1..Len(items) :
        StoredFor(t, items[i]) # {} <=> EntryOverlaps(items[i], dates)

\* C17: a builder called on an empty tree with a table and a date range
\* returns a tree that holds an interval for an entry if and only if the
\* entry's [start, end] overlaps the range; with no range every entry is
\* inserted.
C17_RangeFilteredBuild ==
    [][/\ (ret'.op = "grow_cr_tree" /\ ret'.value # None
             /\ cr_instance # None /\ cr_instance[1].tree = {}) =>
              HoldsOverlapping(ret'.value[1],
                               CallTable(ret'.arg[1],
                                         cr_instance[1].cr_departments),
                               ret'.arg[1].dates)
       /\ (ret'.op = "grow_appropriation_gaps_tree" /\ ret'.value # None
             /\ gap_instance # None /\ gap_instance[1].tree = {}) =>
              HoldsOverlapping(ret'.value[1],
                               CallTable(ret'.arg[1],
                                         gap_instance[1].appropriations_gaps),
                               ret'.arg[1].dates)]_vars

----------------------------------------------------------------------------
(* C19 *)

\* The entry meets the range at a boundary day: it ends on the range's
\* first day or starts on its last day.
Touches(item, dates) ==
    \/ item.end = RangeDays(dates[1])[1]
    \/ item.start = RangeDays(dates[1])[2]

\* The overlap check passes every entry that touches the range, and the
\* tree holds the entry's interval.
HoldsTouching(t, items, dates) ==
    \A i \in 1..Len(items) :
        Touches(items[i], dates) =>
            /\ _get_overlap_interval(items[i].start, items[i].end,
                                     Some(_get_date_interval(dates[1])))
                   # None
            /\ StoredFor(t, items[i]) # {}

\* C19: an entry that meets the bounding range only at a shared boundary
\* day counts as overlapping: the overlap check gives a result other than
\* the no-overlap signal and the builder inserts the entry.
C19_BoundaryDayOverlaps ==
    [][/\ (ret'.op = "grow_cr_tree" /\ ret'.value # None
             /\ ret'.arg[1].dates # None
             /\ cr_instance # None /\ cr_instance[1].tree = {}) =>
              HoldsTouching(ret'.value[1],
                            CallTable(ret'.arg[1],
                                      cr_instance[1].cr_departments),
                            ret'.arg[1].dates)
       /\ (ret'.op = "grow_appropriation_gaps_tree" /\ ret'.value # None
             /\ ret'.arg[1].dates # None
             /\ gap_instance # None /\ gap_instance[1].tree = {}) =>
              HoldsTouching(ret'.value[1],
                            CallTable(ret'.arg[1],
                                      gap_instance[1].appropriations_gaps),
                            ret'.arg[1].dates)]_vars

----------------------------------------------------------------------------
(* C18 *)

\* The day offset a date stands for: an offset stands for itself, a
\* Timestamp for its day.
DayOffset(x) == IF x \in Days THEN x ELSE pdtimestamp_to_posix_day(x)

Max(a, b) == IF a > b THEN a ELSE b

Min(a, b) == IF a < b THEN a ELSE b

\* The intersection of [start, end] with the range, each end of the
\* range taken from its own value; None when they share no day.
Intersection(start, end, date_range) ==
    IF date_range = None
    THEN Some(<<start, end>>)
    ELSE IF \/ end < DayOffset(date_range[1][1])
            \/ start > DayOffset(date_range[1][2])
         THEN None
         ELSE Some(<<Max(start, DayOffset(date_range[1][1])),
                     Min(end, DayOffset(date_range[1][2]))>>)

\* The ranges given as two Timestamps.
TimestampRanges ==
    {Some(<<Timestamp(pair[1]), Timestamp(pair[2])>>) :
        pair \in Days \X Days}

\* C18: _get_overlap_interval(start, end, range) returns (start, end)
\* with no range; with a range (rs, re) it returns
\* (max(start, rs), min(end, re)) when the closed ranges intersect and
\* None when they are disjoint, rs and re each converted from its own
\* input value; stated for ranges of Timestamps.
C18_OverlapIsIntersection ==
    (ret.op = "_get_overlap_interval"
       /\ ret.arg[1].date_range \in {None} \cup TimestampRanges) =>
        ret.value = Some(Intersection(ret.arg[1].start, ret.arg[1].end,
                                      ret.arg[1].date_range))

----------------------------------------------------------------------------
(* C20 *)

\* C20: normalizing a value that is already an integer day offset is a
\* no-op: _get_date_interval returns a pair of day offsets unchanged, the
\* range conversion of _get_overlap_interval leaves a range of day
\* offsets as it is, and normalizing twice equals normalizing once.
C20_NormalizeOffsetIsNoOp ==
    /\ (ret.op = "_get_date_interval" /\ ret.arg[1] \in Days \X Days) =>
           ret.value = Some(ret.arg[1])
    /\ ret.op = "_get_date_interval" =>
           _get_date_interval(ret.value[1]) = ret.value[1]
    /\ (ret.op = "_get_overlap_interval"
          /\ ret.arg[1].date_range \in {Some(pair) : pair \in Days \X Days}) =>
           ret.value = Some(Intersection(ret.arg[1].start, ret.arg[1].end,
                                         ret.arg[1].date_range))

----------------------------------------------------------------------------
(* C12 *)

\* The threads that ran the given part of the build.
Builders(part) == {t \in Threads : part \in threads[t].made}

\* C12: when several threads make the first use of the unified tree
\* together, one thread alone runs the build pipeline (the CR grower, the
\* gap grower, the union), and all threads get the same tree.
C12_OneThreadBuilds ==
    /\ Cardinality(Builders("cr_instance")) <= 1
    /\ Cardinality(Builders("gap_instance")) <= 1
    /\ Cardinality(Builders("union")) <= 1
    /\ \A t \in Threads, u \in Threads :
           (threads[t].pc = "done" /\ threads[u].pc = "done") =>
               threads[t].value = threads[u].value

----------------------------------------------------------------------------
(* C13 *)

\* The whole CR tree and the whole gap tree of the source tables.
FullCRTree == CRTreeGrower(CR_DEPARTMENTS).instance[1].tree

FullGapTree == AppropriationsGapsTreeGrower(APPROPRIATIONS_GAPS, None).instance[1].tree

\* C13: under any interleaving of building and reading threads, a reader
\* that finds the class-level unified tree set finds the complete union
\* of the full CR tree and the full gap tree, and so does a thread whose
\* request has returned.
C13_ReadersSeeCompleteUnion ==
    /\ tree # None => tree[1] = FullCRTree \cup FullGapTree
    /\ \A t \in Threads :
           threads[t].value # None =>
               threads[t].value[1] = FullCRTree \cup FullGapTree

\* The class-level tree is set and holds CR and gap records while two
\* threads have each built a CR grower and one of them is still inside
\* the build.
C13_Witness ==
    /\ tree # None
    /\ FullCRTree # {}
    /\ FullGapTree # {}
    /\ Cardinality(Builders("cr_instance")) >= 2
    /\ \E t \in Threads : threads[t].pc \in {"482", "483", "484", "485",
                                             "486", "487", "489"}


----------------------------------------------------------------------------
(* C21 *)

\* Tree before its first use: no class attribute is set.
NewTreeClass ==
    [cr_instance |-> None, gap_instance |-> None,
     cr_tree |-> None, gap_tree |-> None, tree |-> None]

\* The first status query of the process for the date: nothing is built.
FirstQuery(pdtimestamp) ==
    _set_status_cache(FedStamp(pdtimestamp), NewTreeClass, None)

\* The query that just returned ended as `first` did: the same error, or
\* the same mapping.
SameAsFirst(first) ==
    /\ err = first.raised
    /\ first.raised = "" => ret.value = first.self._status_cache

\* C21: status resolution does not depend on history: all_depts_status of
\* a FedStamp gives the mapping that the first status query of the process
\* gives for the same date and tables, also after other FedStamp instances
\* have built the shared state tree.
C21_SameMappingAfterEarlierQueries ==
    (stamp # None /\ ret.op = "all_depts_status") =>
        SameAsFirst(FirstQuery(stamp[1].pdtimestamp))

----------------------------------------------------------------------------
(* time_utils.py: to_timestamp *)

\* A Python value handed to to_timestamp: the name of its type and its
\* content, written as numbers (fields) and the character between them
\* (sep).
\*   pd.Timestamp   one number, the seconds since the epoch
\*   int            one number
\*   str            the numbers of the text and the character between
\*                  them; no number for other text
\*   date           year, month, day of a valid date
\*   YearMonthDay   year, month, day
\*   tuple          value is the sequence of its items
PyValue(type, value) == [type |-> type, value |-> value]

Content(sep, fields) == [sep |-> sep, fields |-> fields]

Number(n) == Content("", <<n>>)

Converted(timestamp) == [value |-> Some(timestamp), raised |-> ""]

Raises(error) == [value |-> None, raised |-> error]

IsLeap(year) == (year % 4 = 0 /\ year % 100 # 0) \/ year % 400 = 0

DaysInMonth(year, month) ==
    IF month = 2 THEN (IF IsLeap(year) THEN 29 ELSE 28)
    ELSE IF month \in {4, 6, 9, 11} THEN 30 ELSE 31

\* datetime.date(year, month, day) exists.
ValidDate(ymd) ==
    /\ ymd[1] \in 1..9999
    /\ ymd[2] \in 1..12
    /\ ymd[3] \in 1..DaysInMonth(ymd[1], ymd[2])

LeapsBefore(year) ==
    (year - 1) \div 4 - (year - 1) \div 100 + (year - 1) \div 400

RECURSIVE DaysBeforeMonth(_, _)
DaysBeforeMonth(year, month) ==
    IF month = 1 THEN 0
    ELSE DaysBeforeMonth(year, month - 1) + DaysInMonth(year, month - 1)

\* Whole days from 1970-01-01 to the date.
EpochDay(ymd) ==
    365 * (ymd[1] - 1970) + LeapsBefore(ymd[1]) - LeapsBefore(1970)
        + DaysBeforeMonth(ymd[1], ymd[2]) + ymd[3] - 1

\* <<year, month, day>> a is not after b.
NotAfter(a, b) ==
    \/ a[1] < b[1]
    \/ a[1] = b[1] /\ a[2] < b[2]
    \/ a[1] = b[1] /\ a[2] = b[2] /\ a[3] <= b[3]

\* The midnights a pd.Timestamp can hold: 1677-09-22 to 2262-04-11.
InTimestampBounds(ymd) ==
    NotAfter(<<1677, 9, 22>>, ymd) /\ NotAfter(ymd, <<2262, 4, 11>>)

\* pd.Timestamp(year=, month=, day=) and pd.Timestamp(ts_input=date), as
\* check_timestamp calls it for _stamp_date; OutOfBoundsDatetime is a
\* ValueError.
pdTimestamp(ymd) ==
    IF ~ValidDate(ymd) THEN Raises("ValueError")
    ELSE IF ~InTimestampBounds(ymd) THEN Raises("OutOfBoundsDatetime")
    ELSE Converted(Timestamp(EpochDay(ymd)))

\* Digits of a number of a date text: day and month are written with two
\* digits, a year with four or more.
Digits(n) == IF n < 100 THEN 2 ELSE IF n < 1000 THEN 3
             ELSE IF n < 10000 THEN 4 ELSE 5

\* date.fromisoformat(text) found a date: YYYY-MM-DD.
fromisoformat(text) ==
    IF /\ text.sep = "-" /\ Len(text.fields) = 3
       /\ Digits(text.fields[1]) = 4
       /\ Digits(text.fields[2]) = 2 /\ Digits(text.fields[3]) = 2
       /\ ValidDate(text.fields)
    THEN Some(text.fields) ELSE None

\* datetime.strptime(text, fmt).date() for the four formats of
\* _str_to_timestamp; None stands for its ValueError.
strptime(text, fmt) ==
    LET f == text.fields
        ymd == IF fmt \in {"%m/%d/%Y", "%m-%d-%Y"}
               THEN <<f[3], f[1], f[2]>> ELSE <<f[3], f[2], f[1]>>
        sep == IF fmt \in {"%m/%d/%Y", "%d/%m/%Y"} THEN "/" ELSE "-"
    IN  IF /\ text.sep = sep /\ Len(f) = 3
           /\ Digits(f[1]) = 2 /\ Digits(f[2]) = 2 /\ Digits(f[3]) = 4
           /\ ValidDate(ymd)
        THEN Some(ymd) ELSE None

\* The formats of the fallback loop of _str_to_timestamp, in its order.
StrFormats == <<"%m/%d/%Y", "%m-%d-%Y", "%d/%m/%Y", "%d-%m-%Y">>

\* The loop from format number i on: the first format that parses the
\* text and gives a date pd.Timestamp takes is returned; a ValueError of
\* either goes on to the next format, and the end of the formats raises.
RECURSIVE str_fallback(_, _)
str_fallback(text, i) ==
    IF i > Len(StrFormats) THEN Raises("ValueError")
    ELSE IF /\ strptime(text, StrFormats[i]) # None
            /\ pdTimestamp(strptime(text, StrFormats[i])[1]).raised = ""
         THEN pdTimestamp(strptime(text, StrFormats[i])[1])
         ELSE str_fallback(text, i + 1)

_str_to_timestamp(date_input) ==
    IF /\ fromisoformat(date_input) # None
       /\ pdTimestamp(fromisoformat(date_input)[1]).raised = ""
    THEN pdTimestamp(fromisoformat(date_input)[1])
    ELSE str_fallback(date_input, 1)

\* int(item) for an item of a tuple: an int, or a text of one number.
int_item(item) ==
    CASE item.type = "int" ->
             [value |-> Some(item.value.fields[1]), raised |-> ""]
      [] item.type = "str" ->
             IF item.value.sep = "" /\ Len(item.value.fields) = 1
             THEN [value |-> Some(item.value.fields[1]), raised |-> ""]
             ELSE Raises("ValueError")
      [] OTHER -> Raises("TypeError")

\* year, month, day = (int(item) for item in date_input): the error of
\* the first item int() does not take, "" if it takes them all. The
\* except clause turns a ValueError into a ValueError.
items_raised(date_input) ==
    LET bad == {i \in 1..3 : int_item(date_input[i]).raised # ""}
    IN  IF bad = {} THEN ""
        ELSE int_item(date_input[CHOOSE i \in bad :
                                     \A j \in bad : i <= j]).raised

\* _timetuple_to_timestamp without the check of the year.
_timetuple_to_timestamp_any_year(date_input) ==
    IF Len(date_input) # 3 THEN Raises("ValueError")
    ELSE IF items_raised(date_input) # ""
         THEN Raises(items_raised(date_input))
    ELSE pdTimestamp(<<int_item(date_input[1]).value[1],
                       int_item(date_input[2]).value[1],
                       int_item(date_input[3]).value[1]>>)

_timetuple_to_timestamp(date_input) ==
    IF Len(date_input) # 3 THEN Raises("ValueError")
    ELSE IF items_raised(date_input) # ""
         THEN Raises(items_raised(date_input))
    ELSE IF ~(/\ 1970 <= int_item(date_input[1]).value[1]
              /\ int_item(date_input[1]).value[1] <= 9999)
         THEN Raises("ValueError")
    ELSE pdTimestamp(<<int_item(date_input[1]).value[1],
                       int_item(date_input[2]).value[1],
                       int_item(date_input[3]).value[1]>>)

\* The singledispatch function with its registered converters; a type
\* without one reaches the function itself.
to_timestamp(date_input) ==
    CASE date_input.type = "Timestamp" ->
             Converted(date_input.value.fields[1])
      [] date_input.type = "int" ->
             Converted(_posix_to_timestamp(date_input.value.fields[1]))
      [] date_input.type = "str" -> _str_to_timestamp(date_input.value)
      [] date_input.type = "date" -> pdTimestamp(date_input.value.fields)
      [] date_input.type = "YearMonthDay" ->
             pdTimestamp(date_input.value.fields)
      [] date_input.type = "tuple" ->
             _timetuple_to_timestamp(date_input.value)
      [] OTHER -> Raises("TypeError")

----------------------------------------------------------------------------
(* fedstamp.py: FedStamp.__init__ and to_fedstamp *)

\* self after `self.pdtimestamp = <converted>` and the three assignments
\* that end __init__, or the error of the conversion.
init_converted(converted) ==
    IF converted.raised # ""
    THEN [self |-> None, raised |-> converted.raised]
    ELSE [self |-> Some(FedStamp(converted.value[1])), raised |-> ""]

\* FedStamp.__init__(pdtimestamp), pdtimestamp None or Some(value);
\* utcnow is the Timestamp of the current date. An attribute that was
\* never assigned is a field the record lacks.
FedStamp__init__(pdtimestamp, utcnow) ==
    IF pdtimestamp # None /\ pdtimestamp[1].type = "Timestamp"
    THEN [self |-> Some(FedStamp(pdtimestamp[1].value.fields[1])),
          raised |-> ""]
    ELSE IF pdtimestamp # None
    THEN init_converted(to_timestamp(pdtimestamp[1]))
    ELSE [self |-> Some([_status_cache |-> None]), raised |-> ""]

\* to_fedstamp(*date): date is the tuple of the arguments; the FedStamp is
\* made from the Timestamp to_timestamp gives for that tuple.
to_fedstamp(date) ==
    IF Len(date) # 0 /\ Len(date) \in {1, 3}
    THEN init_converted(to_timestamp(PyValue("tuple", date)))
    ELSE [self |-> None, raised |-> "ValueError"]

----------------------------------------------------------------------------
(* Date conversion: to_timestamp, FedStamp() and to_fedstamp called *)

\* The most items of a tuple and the most arguments of to_fedstamp.
MaxArgs == 4

Years == {1969, 1970, 9999, 10000}

\* Texts: three numbers with a separator, one number, or other text.
Texts ==
    {Content(sep, <<a, b, c>>) :
        sep \in {"-", "/", "."},
        a \in {1, 13, 1970}, b \in {1, 13}, c \in {1, 1970, 10000}}
    \cup {Number(n) : n \in {1, 1970}}
    \cup {Content("", <<>>)}

\* Values of the types with a registered converter.
DateValues ==
    {PyValue("Timestamp", Number(Timestamp(day))) : day \in Days}
    \cup {PyValue("int", Number(Timestamp(day) + s)) :
             day \in Days, s \in {0, 1}}
    \cup {PyValue("str", text) : text \in Texts}
    \cup {PyValue("date", Content("", ymd)) :
             ymd \in {<<1969, 12, 31>>, <<1970, 1, 2>>, <<9999, 12, 31>>}}
    \cup {PyValue("YearMonthDay", Content("", <<y, m, d>>)) :
             y \in Years, m \in {1, 13}, d \in {1, 32}}

\* Values of types without one.
OtherValues ==
    {PyValue(type, Content("", <<>>)) : type \in {"list", "dict", "NoneType"}}

\* Items of tuples and arguments of to_fedstamp: numbers, and a text that
\* is no number.
Items(numbers) ==
    {PyValue("int", Number(n)) : n \in numbers}
    \cup {PyValue("str", Content("", <<>>))}

\* Tuples of three items, and tuples of every other length up to MaxArgs.
Tuples ==
    (Items(Years) \X Items({1, 13}) \X Items({1, 32}))
    \cup UNION {[1..n -> Items({1970})] : n \in (0..MaxArgs) \ {3}}

InitConvert == InitInterval

\* The state after a call that converts a date: r is its result.
ConvertReturn(op, arg, value, raised) ==
    /\ ret' = Returned(op, arg, value)
    /\ err' = raised
    /\ UNCHANGED <<CR_DEPARTMENTS, APPROPRIATIONS_GAPS, state_tree, threads>>
    /\ UNCHANGED treeVars

timestamp_returned(date_input, r) ==
    /\ ConvertReturn("to_timestamp", Some(date_input), r.value, r.raised)
    /\ UNCHANGED <<stamp, resolved>>

\* time_utils.to_timestamp(date_input)
ToTimestamp(date_input) ==
    timestamp_returned(date_input, to_timestamp(date_input))

\* The FedStamp a call made is the one in use from then on.
stamp_returned(op, arg, r) ==
    /\ ConvertReturn(op, arg, r.self, r.raised)
    /\ stamp' = IF r.raised = "" THEN r.self ELSE stamp
    /\ resolved' = IF r.raised = "" THEN 0 ELSE resolved

\* FedStamp(pdtimestamp) and FedStamp(), on the date utcnow.
FedStampInit(pdtimestamp, utcnow) ==
    stamp_returned("FedStamp",
                   Some([pdtimestamp |-> pdtimestamp, utcnow |-> utcnow]),
                   FedStamp__init__(pdtimestamp, utcnow))

\* to_fedstamp(*date)
ToFedstamp(date) ==
    stamp_returned("to_fedstamp", Some(date), to_fedstamp(date))

NextConvert ==
    \/ \E date_input \in DateValues \cup OtherValues :
           ToTimestamp(date_input)
    \/ \E date_input \in Tuples : ToTimestamp(PyValue("tuple", date_input))
    \/ \E day \in Days : FedStampInit(None, Timestamp(day))
    \/ \E date_input \in DateValues \cup OtherValues :
           FedStampInit(Some(date_input), Timestamp(MaxDay))
    \/ \E date_input \in DateValues : ToFedstamp(<<date_input>>)
    \/ \E date \in Tuples : ToFedstamp(date)

SpecConvert == InitConvert /\ [][NextConvert]_vars

----------------------------------------------------------------------------
(* C22 *)

RegisteredTypes == {"Timestamp", "int", "str", "date", "YearMonthDay", "tuple"}

\* The text is a date in one of the formats: YYYY-MM-DD, or month, day,
\* year or day, month, year with "/" or "-" between them.
MatchesFormat(text) ==
    /\ Len(text.fields) = 3
    /\ \/ /\ text.sep = "-"
          /\ text.fields[1] \in 1000..9999
          /\ ValidDate(text.fields)
       \/ /\ text.sep \in {"-", "/"}
          /\ text.fields[3] \in 1000..9999
          /\ \/ ValidDate(<<text.fields[3], text.fields[1], text.fields[2]>>)
             \/ ValidDate(<<text.fields[3], text.fields[2], text.fields[1]>>)

\* The first item of the tuple is a year from 1970 to 9999.
YearInRange(items) ==
    /\ items[1].type = "int"
    /\ items[1].value.fields[1] \in 1970..9999

\* A date input the conversion does not support.
Unsupported(date_input) ==
    \/ date_input.type \notin RegisteredTypes
    \/ date_input.type = "str" /\ ~MatchesFormat(date_input.value)
    \/ /\ date_input.type = "tuple"
       /\ (Len(date_input.value) # 3 \/ ~YearInRange(date_input.value))

\* The call raised and gave its caller no value.
RaisedToCaller == err # "" /\ ret.value = None

----------------------------------------------------------------------------
(* C24 *)

\* C24: a FedStamp constructed without a pdtimestamp has its pdtimestamp
\* set to the current date.
C24_DefaultsToCurrentDate ==
    (ret.op = "FedStamp" /\ ret.arg[1].pdtimestamp = None) =>
        /\ ret.value # None
        /\ "pdtimestamp" \in DOMAIN ret.value[1]
        /\ ret.value[1].pdtimestamp = ret.arg[1].utcnow

----------------------------------------------------------------------------
(* C25 *)

\* The call returned the FedStamp of the date the conversion `converted`
\* gives.
ReturnedStampOf(converted) ==
    /\ err = ""
    /\ ret.value = Some(FedStamp(converted.value[1]))

\* C25: to_fedstamp with one argument that is a supported date returns
\* the FedStamp of that date; with three arguments (year, month, day) it
\* returns the FedStamp of that date; with any other number of arguments
\* (0, 2, 4 or more) it raises ValueError.
C25_ToFedstampByArgumentCount ==
    ret.op = "to_fedstamp" =>
        /\ (Len(ret.arg[1]) = 1 /\ to_timestamp(ret.arg[1][1]).raised = "")
               => ReturnedStampOf(to_timestamp(ret.arg[1][1]))
        /\ (/\ Len(ret.arg[1]) = 3
            /\ to_timestamp(PyValue("tuple", ret.arg[1])).raised = "")
               => ReturnedStampOf(to_timestamp(PyValue("tuple", ret.arg[1])))
        /\ Len(ret.arg[1]) \notin {1, 3}
               => (err = "ValueError" /\ ret.value = None)

----------------------------------------------------------------------------
(* fedstamp.py: the status properties *)

\* A further self._set_status_cache() of the same access: first is what
\* the calls before it did, again what this one does.
set_status_cache_again(first, again) ==
    [again EXCEPT !.resolved = first.resolved + again.resolved]

\* The next call is made unless the one before raised.
next_set_status_cache(first) ==
    IF first.raised # "" THEN first
    ELSE set_status_cache_again(
             first, _set_status_cache(first.self, first.cls, first.dstree))

\* n calls of self._set_status_cache(), one after the other.
RECURSIVE set_status_cache_times(_, _, _, _)
set_status_cache_times(self, cls, dstree, n) ==
    IF n = 1 THEN _set_status_cache(self, cls, dstree)
    ELSE next_set_status_cache(set_status_cache_times(self, cls, dstree, n - 1))

\* a | b of two dicts
dict_union(a, b) ==
    [d \in DOMAIN a \cup DOMAIN b |-> IF d \in DOMAIN b THEN b[d] ELSE a[d]]

dict_to_dept_set(status_dict) == DOMAIN status_dict

\* FedStamp.departments
departments(self) == get_depts_set_at_time(posix_day(self))

\* The properties, as they read a cache that is set.
full_op_depts(self) == get_departments_by_status(self, "DEFAULT_STATUS")

funded_depts(self) ==
    dict_union(get_departments_by_status(self, "DEFAULT_STATUS"),
               get_departments_by_status(self, "CR_STATUS"))

cr_depts(self) == get_departments_by_status(self, "CR_STATUS")

gapped_depts(self) == get_departments_by_status(self, "GAP_STATUS")

shutdown_depts(self) == get_departments_by_status(self, "SHUTDOWN_STATUS")

unfunded_depts(self) ==
    dict_union(get_departments_by_status(self, "SHUTDOWN_STATUS"),
               get_departments_by_status(self, "GAP_STATUS"))

all_depts_full_approps(self) ==
    dict_to_dept_set(full_op_depts(self)) = departments(self)

all_depts_cr(self) ==
    dict_to_dept_set(get_departments_by_status(self, "CR_STATUS"))
        = departments(self)

all_depts_funded(self) ==
    dict_to_dept_set(funded_depts(self)) = departments(self)

all_unfunded(self) ==
    dict_to_dept_set(unfunded_depts(self)) = departments(self)

\* bool(dict)
gov_cr(self) == DOMAIN cr_depts(self) # {}

gov_shutdown(self) == DOMAIN shutdown_depts(self) # {}

gov_approps_gap(self) == DOMAIN gapped_depts(self) # {}

gov_unfunded(self) ==
    DOMAIN dict_union(gapped_depts(self), shutdown_depts(self)) # {}

\* The properties that give a dict and those that give a bool.
DictProperties ==
    {"full_op_depts", "funded_depts", "cr_depts", "gapped_depts",
     "shutdown_depts", "unfunded_depts"}

BoolProperties ==
    {"all_depts_full_approps", "all_depts_cr", "all_depts_funded",
     "all_unfunded", "gov_cr", "gov_shutdown", "gov_approps_gap",
     "gov_unfunded"}

\* The calls of self._set_status_cache() an access of the property makes,
\* those of the properties and getters it reads included.
SetStatusCacheCalls ==
    [full_op_depts |-> 2, funded_depts |-> 2, cr_depts |-> 1,
     gapped_depts |-> 1, shutdown_depts |-> 1, unfunded_depts |-> 2,
     all_depts_full_approps |-> 3, all_depts_cr |-> 2,
     all_depts_funded |-> 3, all_unfunded |-> 3, gov_cr |-> 2,
     gov_shutdown |-> 2, gov_approps_gap |-> 2, gov_unfunded |-> 3]

dict_property(self, name) ==
    CASE name = "full_op_depts" -> full_op_depts(self)
      [] name = "funded_depts" -> funded_depts(self)
      [] name = "cr_depts" -> cr_depts(self)
      [] name = "gapped_depts" -> gapped_depts(self)
      [] name = "shutdown_depts" -> shutdown_depts(self)
      [] name = "unfunded_depts" -> unfunded_depts(self)

bool_property(self, name) ==
    CASE name = "all_depts_full_approps" -> all_depts_full_approps(self)
      [] name = "all_depts_cr" -> all_depts_cr(self)
      [] name = "all_depts_funded" -> all_depts_funded(self)
      [] name = "all_unfunded" -> all_unfunded(self)
      [] name = "gov_cr" -> gov_cr(self)
      [] name = "gov_shutdown" -> gov_shutdown(self)
      [] name = "gov_approps_gap" -> gov_approps_gap(self)
      [] name = "gov_unfunded" -> gov_unfunded(self)

----------------------------------------------------------------------------
(* The status properties of FedStamp read, one access after the other *)

\* CR entries that leave no department out, or DHS and one other.
StatusCRItems == {i \in CRItems : i.departments \in {{}, {DHS, "DoD"}}}

InitStatus ==
    /\ CR_DEPARTMENTS \in Tables(StatusCRItems)
    /\ APPROPRIATIONS_GAPS \in Tables(GapItems)
    /\ cr_instance = None
    /\ gap_instance = None
    /\ cr_tree = None
    /\ gap_tree = None
    /\ tree = None
    /\ state_tree = None
    /\ stamp = None
    /\ resolved = 0
    /\ ret = NoReturn
    /\ err = ""
    /\ threads = NoThreads

dict_property_returned(r, name) ==
    StatusReturn(r, name, None, dict_property(r.self, name))

\* One of the *_depts properties is read.
DictProperty(name) ==
    /\ stamp # None
    /\ dict_property_returned(
           set_status_cache_times(stamp[1], TreeClass, state_tree,
                                  SetStatusCacheCalls[name]), name)

bool_property_returned(r, name) ==
    StatusReturn(r, name, None, bool_property(r.self, name))

\* One of the all_* and gov_* properties is read.
BoolProperty(name) ==
    /\ stamp # None
    /\ bool_property_returned(
           set_status_cache_times(stamp[1], TreeClass, state_tree,
                                  SetStatusCacheCalls[name]), name)

NextStatus ==
    \/ \E day \in Days : FedStampNew(day)
    \/ AllDeptsStatus
    \/ \E status_key \in StatusKeys : GetDepartmentsByStatus(status_key)
    \/ \E name \in DictProperties : DictProperty(name)
    \/ \E name \in BoolProperties : BoolProperty(name)

SpecStatus == InitStatus /\ [][NextStatus]_vars

----------------------------------------------------------------------------
(* C23 *)

\* The accesses of the status of a FedStamp.
StatusOps ==
    {"all_depts_status", "get_departments_by_status"}
        \cup DictProperties \cup BoolProperties

\* C23: for one FedStamp, any sequence of accesses of its status
\* properties and derived predicates performs at most one status
\* resolution: the calls of get_state made for it never exceed one, and
\* an access of a FedStamp that holds the resolved mapping returns
\* without an error, makes no call of get_state and leaves the mapping,
\* the state tree and the trees of Tree as they are.
C23_AtMostOneResolution ==
    [][/\ resolved' <= 1
       /\ (StampCached /\ ret'.op \in StatusOps) =>
              /\ err' = ""
              /\ resolved' = resolved
              /\ stamp' = stamp
              /\ state_tree' = state_tree
              /\ UNCHANGED treeVars]_vars

\* gov_unfunded, which calls _set_status_cache three times, returned for
\* a FedStamp whose mapping was resolved once, over a tree that is not
\* empty.
C23_Witness ==
    /\ StampCached
    /\ ret.op = "gov_unfunded"
    /\ ret.value = Some(TRUE)
    /\ resolved = 1
    /\ state_tree # None /\ state_tree[1] # {}

----------------------------------------------------------------------------
(* C26 *)

\* The departments whose resolved status is the given one in the mapping
\* the FedStamp in use holds.
DepartmentsWith(status) ==
    {d \in DOMAIN stamp[1]._status_cache[1] :
        stamp[1]._status_cache[1][d].status = status}

\* C26: on every date, before the first day with CR data as well as from
\* it on, gov_cr is true if and only if at least one department's
\* resolved status is the continuing-resolution status, and cr_depts
\* holds exactly the departments with that status.
C26_GovCRIffADepartmentUnderCR ==
    /\ (ret.op = "gov_cr" /\ err = "") =>
           ret.value = Some(DepartmentsWith(STATUS_MAP["CR_STATUS"]) # {})
    /\ (ret.op = "cr_depts" /\ err = "") =>
           DOMAIN ret.value[1] = DepartmentsWith(STATUS_MAP["CR_STATUS"])

----------------------------------------------------------------------------
(* C27 *)

\* C27: on every date the key set of an unfiltered resolve result is
\* exactly the set of the departments active on the date: DHS does not
\* appear before its formation day, also when the date is covered by a CR
\* interval that starts before the formation and ends on or after it, or
\* by a gap interval whose source set lists DHS.
C27_KeysAreTheActiveDepartments ==
    (ret.op = "all_depts_status" /\ err = "") =>
        DOMAIN ret.value[1] = get_depts_set_at_time(StampDay)

----------------------------------------------------------------------------
(* C30 *)

\* The departments of the mapping the FedStamp in use holds.
CachedDepartments == DOMAIN stamp[1]._status_cache[1]

----------------------------------------------------------------------------
(* C28 *)

\* C28: an AppropriationsGapsTreeGrower constructed with its dates set
\* builds a tree limited to the gap entries that overlap that range; with
\* dates unset the tree holds every entry of the gap table.
C28_GrowerDatesLimitTheTree ==
    (ret.op = "AppropriationsGapsTreeGrower" /\ ret.value # None) =>
        HoldsOverlapping(ret.value[1], ret.arg[1].table[1], ret.arg[1].dates)

----------------------------------------------------------------------------
(* C29 *)

HasMalformed(items) == \E i \in 1..Len(items) : ~WellFormed(items[i])

\* The call raised and returned no tree.
BuildFailed == err' # "" /\ ret'.value = None

\* C29: a builder that builds (its tree is empty) from a table with an
\* entry whose end day is before its start day fails with an error, with
\* or without a date range; this holds for the CR builder and for the gap
\* builder.
C29_MalformedEntryFailsTheBuild ==
    [][/\ (/\ ret'.op = "grow_cr_tree"
           /\ cr_instance # None /\ cr_instance[1].tree = {}
           /\ HasMalformed(CallTable(ret'.arg[1],
                                     cr_instance[1].cr_departments)))
              => BuildFailed
       /\ (/\ ret'.op = "grow_appropriation_gaps_tree"
           /\ gap_instance # None /\ gap_instance[1].tree = {}
           /\ HasMalformed(CallTable(ret'.arg[1],
                                     gap_instance[1].appropriations_gaps)))
              => BuildFailed]_vars

============================================================================
